---- MODULE Spec2Model ----
(***************************************************************************)
(* Booking/ticketing subsystem of the bus fleet API: the Trip row with its *)
(* capacity ledger, the Ticket rows, and the request handlers of           *)
(* tickets/serializers.py, tickets/views.py and trips/views.py.            *)
(*                                                                         *)
(* A request is a sequence of steps, one per access to the database: a     *)
(* handler reads a row into a local object, changes the object, and        *)
(* Model.save() writes the whole object back.  The handlers hold no lock   *)
(* and open no transaction, so the steps of two requests interleave.       *)
(***************************************************************************)
EXTENDS Integers, Sequences, FiniteSets, TLC

\* ------------------------------------------------------------------ bounds
MaxTickets == 3
MaxLifecycleTickets == 1
MaxCapacity == 2
MaxClock == 1
MaxDate == 3
MaxUsage == 2
MaxDiscounts == 2
MaxBookings == 2
MaxBookingTickets == 2
MaxListed == 2

\* ------------------------------------------------------- program constants
\* timezone.timedelta(hours=24)
ExpiryHours == 24

\* ------------------------------------------------------------ static data
Requests == {"r1", "r2"}
TripIds == {"t1"}
Actors == {"ua", "ub"}
Users == {"ua", "un", "ub"}
NoTime == -1
NoLimit == -1
NoCapacity == -1
Null == "null"
Absent == "absent"

\* Company rows
Companies == {"A", "B"}

\* Employee.company (read-only in EmployeeSerializer)
EmployeeCompany(e) == IF e = "eb" THEN "B" ELSE "A"

\* company_id of a user request: a company, or an id of no company
CompanyInputs == Companies \cup {"X"}

\* User.employee, the reverse side of Employee.user (one-to-one, optional)
UserEmployee(u) == CASE u = "ua" -> "ea" [] u = "ub" -> "eb" [] OTHER -> Null

\* TicketStatus
TicketStatuses ==
    {"Reserved", "Confirmed", "Checked In", "Used", "Cancelled", "Refunded", "Expired"}

\* Ticket.status default
DefaultTicketStatus == "Reserved"

\* TripStatus
TripStatuses == {"Scheduled", "Active", "Completed", "Cancelled", "Delayed"}

\* booking_reference values ("2 letters + 6 digits"), as opaque codes
Refs == 1..MaxTickets

\* request.data of the modelled calls
Reasons == {"", "changed plans"}
Amounts == {0, 5}
RefundRefs == {"RF1"}
IssueStatusInputs == {Absent, "Reserved", "Confirmed"}
UpdateStatusInputs == {Absent} \cup TicketStatuses
UpdateReasonInputs == {Absent, "changed plans"}
TripUpdateInputs ==
    [route : {Absent, "A", "B"}, bus : {"A"}, driver : {"A"}, conductor : {Absent},
     bus_status : {"Active", "Maintenance"}, driver_role : {"Driver"},
     capacity : {NoCapacity, 0, 2}, status : {Absent, "Scheduled", "Active"}]
TripCreateInputs ==
    [route : {"A", "B"}, bus : {"A"}, driver : {"A"}, conductor : {Absent},
     bus_status : {"Active", "Maintenance"}, driver_role : {"Driver", "Conductor"},
     capacity : {0, 2}, status : {Absent}, departure : {0, 1}, arrival : {1}]
NewTripId == "t2"
DiscountIds == {1}
DiscountCodes == {"SAVE10"}
CodeInputs == {"", "SAVE10", "OTHER"}
BookingTripIds == {"t1", "t2"}
NoBooking == 0
DiscountTypes == {"Percentage", "Fixed Amount"}
DefaultDiscountType == "Percentage"
MaxPercentage == 100
NoValue == -1
NewCodes == {"SAVE10", "OTHER"}
DiscountInputs ==
    [type : {Absent} \cup DiscountTypes, value : {NoValue, 50, 150},
     start_date : {0}, end_date : {NoTime, 0, 1}]

VARIABLES trips, tickets, events, discounts, bookings, users, req, out, now
vars == <<trips, tickets, events, discounts, bookings, users, req, out, now>>

\* ---------------------------------------------------------------- helpers
\* User.company
UserCompany(u) == users[u]

\* the users as registered: each in the company of its employee row
InitUsers == [u \in Users |-> IF u = "ub" THEN "B" ELSE "A"]

Max(a, b) == IF a >= b THEN a ELSE b
Min(S) == CHOOSE x \in S : \A y \in S : x <= y

\* a request slot with no request in it
IdleReq ==
    [op |-> "none", pc |-> "idle", user |-> "none", id |-> 0, trip |-> "none",
     reason |-> "", status_in |-> Absent, expires_in |-> NoTime,
     amount |-> 0, refund_ref |-> "", cib |-> Absent, bref |-> 0,
     stamp |-> NoTime, event |-> "none", code |-> "", tk |-> Null, tp |-> Null,
     dc |-> Null, listed |-> <<>>, data |-> Null]

\* no response leaves in this step
NoResponse == [op |-> "none", code |-> "none"]

\* the response of request r leaves and its slot is free again
Respond(r, op, code) ==
    /\ req' = [req EXCEPT ![r] = IdleReq]
    /\ out' = [op |-> op, code |-> code]

\* request r moves on to its next database access
Continue(r, q) ==
    /\ req' = [req EXCEPT ![r] = q]
    /\ out' = NoResponse

Free(r) == req[r].pc = "idle"

TicketIds == 1..Len(tickets)

ExistingRefs == {tickets[i].booking_reference : i \in TicketIds}

\* POST /tickets/ requests that have not yet inserted their row
PendingIssues == {r \in Requests : req[r].pc = "issue_create"}

\* random.choices draws any code; codes differ only by identity, so a draw is
\* either a code another request in flight holds or the first code nobody holds
CandidateRefs ==
    LET fresh == Refs \ ExistingRefs
        held == {req[r].bref : r \in PendingIssues}
    IN (fresh \cap held) \cup
       (IF fresh \ held = {} THEN {} ELSE {Min(fresh \ held)})

\* ------------------------------------------------ TicketSerializer.create
\* the guard with < for <=
HasFreeSeatOffByOne(tp) == ~(tp.capacity < tp.booked_seats)

\* if trip.capacity <= trip.booked_seats: raise
HasFreeSeat(tp) == ~(tp.capacity <= tp.booked_seats)

\* the guard without COMPLETED
TripBookableUnlessCancelled(tp) == tp.status \notin {"Cancelled"}

\* if trip.status in [CANCELLED, COMPLETED]: raise
TripBookable(tp) == tp.status \notin {"Cancelled", "Completed"}

\* validated_data.get('status') == 'Reserved' and 'expires_at' not in validated_data
\* (a status the request leaves out is not in validated_data)
SetsExpiry(status_in, expires_in) == status_in = "Reserved" /\ expires_in = NoTime

\* timezone.now() + timezone.timedelta(hours=24)
ExpiryOf(t) == t + ExpiryHours

\* the row Ticket.objects.create(**validated_data) inserts (refund_amount 0
\* stands for no amount)
NewTicket(company, trip, status_in, expires_in, bref, t) ==
    [company |-> company,
     trip |-> trip,
     booking_reference |-> bref,
     status |-> IF status_in = Absent THEN DefaultTicketStatus ELSE status_in,
     expires_at |-> IF SetsExpiry(status_in, expires_in) THEN ExpiryOf(t) ELSE expires_in,
     checked_in_at |-> NoTime,
     checked_in_by |-> Null,
     cancellation_reason |-> Null,
     cancellation_date |-> NoTime,
     refund_amount |-> 0,
     refund_date |-> NoTime,
     refund_reference |-> Null]

\* trip.booked_seats += 1
IncrementSeats(b) == b + 1

\* the duplicate test with the unique constraint dropped
UniqueViolationNever(bref) == FALSE

\* booking_reference is unique: the INSERT of a code a row carries fails
UniqueViolation(bref) == bref \in ExistingRefs

\* serializer.is_valid() (the trip is read, validate_trip) and
\* _generate_booking_reference (a candidate no ticket carries yet)
IssueValidate(r) ==
    /\ Free(r)
    /\ \E u \in Actors, t \in TripIds, st \in IssueStatusInputs :
         IF trips[t].company # UserCompany(u)
         THEN Respond(r, "issue", "400:trip_tenant")
         ELSE \E c \in CandidateRefs :
                Continue(r, [IdleReq EXCEPT !.op = "issue", !.pc = "issue_create",
                                            !.user = u, !.trip = t, !.status_in = st,
                                            !.bref = c, !.tp = trips[t]])
    /\ UNCHANGED <<trips, tickets, events, now, discounts, bookings, users>>

\* the checks of create() on the trip it was handed, then the INSERT
\* (booking_reference is unique: a duplicate is an IntegrityError, answered 400)
IssueCreate(r) ==
    /\ req[r].pc = "issue_create"
    /\ LET q == req[r] IN
         IF ~HasFreeSeat(q.tp)
         THEN Respond(r, "issue", "400:no_seats") /\ UNCHANGED tickets
         ELSE IF ~TripBookable(q.tp)
         THEN Respond(r, "issue", "400:trip_state") /\ UNCHANGED tickets
         ELSE IF UniqueViolation(q.bref)
         THEN Respond(r, "issue", "400:integrity") /\ UNCHANGED tickets
         ELSE /\ tickets' = Append(tickets,
                               NewTicket(UserCompany(q.user), q.trip, q.status_in,
                                         q.expires_in, q.bref, now))
              /\ Continue(r, [q EXCEPT !.pc = "issue_save_trip", !.id = Len(tickets) + 1])
    /\ UNCHANGED <<trips, events, now, discounts, bookings, users>>

\* trip.booked_seats += 1; trip.save() writes every field of the object
IssueSaveTrip(r) ==
    /\ req[r].pc = "issue_save_trip"
    /\ LET q == req[r] IN
         /\ trips' = [trips EXCEPT ![q.trip] =
                        [q.tp EXCEPT !.booked_seats = IncrementSeats(@)]]
         /\ Respond(r, "issue", "201")
    /\ UNCHANGED <<tickets, events, now, discounts, bookings, users>>

\* trip.save() raises after the ticket INSERT was committed (connection lost,
\* statement timeout, worker stopped): the request is answered 500
IssueFail(r) ==
    /\ req[r].pc = "issue_save_trip"
    /\ Respond(r, "issue", "500")
    /\ UNCHANGED <<trips, tickets, events, now, discounts, bookings, users>>

\* the table without its row i
RemoveAt(rows, i) ==
    [j \in 1..(Len(rows) - 1) |-> IF j < i THEN rows[j] ELSE rows[j + 1]]

\* DELETE /tickets/{id}/: get_object() over the caller's company, then the
\* inherited destroy() deletes the row and nothing else
TicketDelete(r) ==
    /\ Free(r)
    /\ \E u \in Actors, id \in TicketIds :
         IF tickets[id].company # UserCompany(u)
         THEN Respond(r, "delete", "404") /\ UNCHANGED tickets
         ELSE /\ tickets' = RemoveAt(tickets, id)
              /\ Respond(r, "delete", "204")
    /\ UNCHANGED <<trips, events, now, discounts, bookings, users>>

\* --------------------------------------------------- TicketViewSet.cancel
\* if not reason
ReasonGiven(reason) == reason # ""

\* the guard letting a checked-in ticket through
CanCancelCheckedIn(status) == status \in {"Reserved", "Confirmed", "Checked In"}

\* ticket.status not in [RESERVED, CONFIRMED]
CanCancel(status) == status \in {"Reserved", "Confirmed"}

\* the decrement taking two seats
DecrementSeatsTwice(b) == Max(0, b - 2)

\* max(0, ticket.trip.booked_seats - 1)
DecrementSeats(b) == Max(0, b - 1)

\* get_object() over get_queryset(), then the two guards
CancelBegin(r) ==
    /\ Free(r)
    /\ \E u \in Actors, id \in TicketIds, reason \in Reasons :
         LET fail(code) == Respond(r, "cancel", code) IN
         IF tickets[id].company # UserCompany(u) THEN fail("404")
         ELSE IF ~ReasonGiven(reason) THEN fail("400:reason")
         ELSE IF ~CanCancel(tickets[id].status) THEN fail("400:state")
         ELSE Continue(r, [IdleReq EXCEPT !.op = "cancel", !.pc = "cancel_save_ticket",
                                          !.user = u, !.id = id, !.reason = reason,
                                          !.trip = tickets[id].trip,
                                          !.tk = tickets[id]])
    /\ UNCHANGED <<trips, tickets, events, now, discounts, bookings, users>>

\* the row ticket.save() writes: every field of the object read, three changed
CancelledTicket(tk, reason, t) ==
    [tk EXCEPT !.status = "Cancelled", !.cancellation_reason = reason,
               !.cancellation_date = t]

\* ticket.status = CANCELLED ... ticket.save()
CancelSaveTicket(r) ==
    /\ req[r].pc = "cancel_save_ticket"
    /\ LET q == req[r] IN
         /\ tickets' = [tickets EXCEPT ![q.id] = CancelledTicket(q.tk, q.reason, now)]
         /\ Continue(r, [q EXCEPT !.pc = "cancel_load_trip", !.tk = Null])
    /\ UNCHANGED <<trips, events, now, discounts, bookings, users>>

\* ticket.trip: the related row is fetched on first access
CancelLoadTrip(r) ==
    /\ req[r].pc = "cancel_load_trip"
    /\ Continue(r, [req[r] EXCEPT !.pc = "cancel_save_trip", !.tp = trips[req[r].trip]])
    /\ UNCHANGED <<trips, tickets, events, now, discounts, bookings, users>>

\* ticket.trip.booked_seats = max(0, ...); ticket.trip.save()
CancelSaveTrip(r) ==
    /\ req[r].pc = "cancel_save_trip"
    /\ LET q == req[r] IN
         /\ trips' = [trips EXCEPT ![q.trip] =
                        [q.tp EXCEPT !.booked_seats = DecrementSeats(@)]]
         /\ Respond(r, "cancel", "200")
    /\ UNCHANGED <<tickets, events, now, discounts, bookings, users>>

\* ------------------------------------------------- TicketViewSet.check_in
\* the guard letting a cancelled ticket through
CanCheckInCancelled(status) == status \in {"Confirmed", "Reserved", "Cancelled"}

\* ticket.status not in [CONFIRMED, RESERVED]
CanCheckIn(status) == status \in {"Confirmed", "Reserved"}

\* TicketCheckInSerializer.validate_checked_in_by
CheckInUserValid(cib, u) == cib = Absent \/ UserCompany(cib) = UserCompany(u)

\* the row ticket.save() writes: checked_in_by only if the request names a user
CheckedInTicket(tk, cib, t) ==
    [tk EXCEPT !.status = "Checked In", !.checked_in_at = t,
               !.checked_in_by = IF cib # Absent THEN UserEmployee(cib) ELSE @]

\* get_object(), serializer.is_valid(), the status guard; user.employee raises
\* when the named user has no employee row (an unhandled exception: 500)
CheckInBegin(r) ==
    /\ Free(r)
    /\ \E u \in Actors, id \in TicketIds, cib \in {Absent} \cup Users :
         LET fail(code) == Respond(r, "check_in", code) IN
         IF tickets[id].company # UserCompany(u) THEN fail("404")
         ELSE IF ~CheckInUserValid(cib, u) THEN fail("400:validation")
         ELSE IF ~CanCheckIn(tickets[id].status) THEN fail("400:state")
         ELSE IF cib # Absent /\ UserEmployee(cib) = Null THEN fail("500")
         ELSE Continue(r, [IdleReq EXCEPT !.op = "check_in", !.pc = "check_in_save",
                                          !.user = u, !.id = id, !.cib = cib,
                                          !.trip = tickets[id].trip,
                                          !.tk = tickets[id]])
    /\ UNCHANGED <<trips, tickets, events, now, discounts, bookings, users>>

\* ticket.save()
CheckInSave(r) ==
    /\ req[r].pc = "check_in_save"
    /\ LET q == req[r] IN
         /\ tickets' = [tickets EXCEPT ![q.id] = CheckedInTicket(q.tk, q.cib, now)]
         /\ Respond(r, "check_in", "200")
    /\ UNCHANGED <<trips, events, now, discounts, bookings, users>>

\* --------------------------------------------------- TicketViewSet.refund
\* the guard letting a confirmed ticket through
CanRefundConfirmed(status) == status \in {"Cancelled", "Confirmed"}

\* ticket.status != CANCELLED
CanRefund(status) == status = "Cancelled"

\* if not refund_amount (a missing amount is None; None, 0 and "" are falsy)
AmountGiven(amount) == amount # 0

\* the row ticket.save() writes
RefundedTicket(tk, amount, ref, t) ==
    [tk EXCEPT !.status = "Refunded", !.refund_amount = amount,
               !.refund_date = t, !.refund_reference = ref]

\* get_object() and the two guards
RefundBegin(r) ==
    /\ Free(r)
    /\ \E u \in Actors, id \in TicketIds, amount \in Amounts, ref \in RefundRefs :
         LET fail(code) == Respond(r, "refund", code) IN
         IF tickets[id].company # UserCompany(u) THEN fail("404")
         ELSE IF ~CanRefund(tickets[id].status) THEN fail("400:state")
         ELSE IF ~AmountGiven(amount) THEN fail("400:amount")
         ELSE Continue(r, [IdleReq EXCEPT !.op = "refund", !.pc = "refund_save",
                                          !.user = u, !.id = id, !.amount = amount,
                                          !.refund_ref = ref,
                                          !.trip = tickets[id].trip,
                                          !.tk = tickets[id]])
    /\ UNCHANGED <<trips, tickets, events, now, discounts, bookings, users>>

\* ticket.save()
RefundSave(r) ==
    /\ req[r].pc = "refund_save"
    /\ LET q == req[r] IN
         /\ tickets' = [tickets EXCEPT ![q.id] =
                          RefundedTicket(q.tk, q.amount, q.refund_ref, now)]
         /\ Respond(r, "refund", "200")
    /\ UNCHANGED <<trips, events, now, discounts, bookings, users>>

\* ------------------------------------------------ TicketSerializer.update
\* validated_data.get('status') == 'Cancelled' and instance.status != 'Cancelled'
UpdateCancels(status_in, tk) == status_in = "Cancelled" /\ tk.status # "Cancelled"

\* ... and 'cancellation_reason' not in validated_data
UpdateNeedsReason(status_in, reason_in, tk) ==
    UpdateCancels(status_in, tk) /\ reason_in = Absent

\* validated_data.get('status') == 'Checked In' and instance.status != 'Checked In'
UpdateChecksIn(status_in, tk) == status_in = "Checked In" /\ tk.status # "Checked In"

\* super().update(instance, validated_data): the fields given, and the two
\* dates (cancellation_date was taken before the trip was touched)
UpdatedTicket(tk, status_in, reason_in, cancelled_at, t) ==
    [tk EXCEPT !.status = IF status_in = Absent THEN @ ELSE status_in,
               !.cancellation_reason = IF reason_in = Absent THEN @ ELSE reason_in,
               !.cancellation_date =
                  IF UpdateCancels(status_in, tk) THEN cancelled_at ELSE @,
               !.checked_in_at = IF UpdateChecksIn(status_in, tk) THEN t ELSE @]

\* PATCH /tickets/{id}/ with status and cancellation_reason: get_object(),
\* then update() up to its first database access
UpdateBegin(r) ==
    /\ Free(r)
    /\ \E u \in Actors, id \in TicketIds, st \in UpdateStatusInputs,
          rs \in UpdateReasonInputs :
         LET fail(code) == Respond(r, "update", code) IN
         IF tickets[id].company # UserCompany(u) THEN fail("404")
         ELSE IF UpdateNeedsReason(st, rs, tickets[id]) THEN fail("400:reason")
         ELSE Continue(r, [IdleReq EXCEPT !.op = "update",
                                          !.pc = IF UpdateCancels(st, tickets[id])
                                                 THEN "update_load_trip"
                                                 ELSE "update_save",
                                          !.user = u, !.id = id, !.status_in = st,
                                          !.reason = rs,
                                          !.stamp = IF UpdateCancels(st, tickets[id])
                                                    THEN now ELSE NoTime,
                                          !.trip = tickets[id].trip,
                                          !.tk = tickets[id]])
    /\ UNCHANGED <<trips, tickets, events, now, discounts, bookings, users>>

\* instance.trip: the related row is fetched on first access
UpdateLoadTrip(r) ==
    /\ req[r].pc = "update_load_trip"
    /\ Continue(r, [req[r] EXCEPT !.pc = "update_save_trip", !.tp = trips[req[r].trip]])
    /\ UNCHANGED <<trips, tickets, events, now, discounts, bookings, users>>

\* instance.trip.booked_seats = max(0, ...); instance.trip.save()
UpdateSaveTrip(r) ==
    /\ req[r].pc = "update_save_trip"
    /\ LET q == req[r] IN
         /\ trips' = [trips EXCEPT ![q.trip] =
                        [q.tp EXCEPT !.booked_seats = DecrementSeats(@)]]
         /\ Continue(r, [q EXCEPT !.pc = "update_save", !.tp = Null])
    /\ UNCHANGED <<tickets, events, now, discounts, bookings, users>>

\* super().update(): instance.save()
UpdateSave(r) ==
    /\ req[r].pc = "update_save"
    /\ LET q == req[r] IN
         /\ tickets' = [tickets EXCEPT ![q.id] =
                          UpdatedTicket(q.tk, q.status_in, q.reason, q.stamp, now)]
         /\ Respond(r, "update", "200")
    /\ UNCHANGED <<trips, events, now, discounts, bookings, users>>

\* ------------------------------------------------------------ TripViewSet
\* the guard letting a delayed trip through
CanStartDelayed(status) == status \in {"Scheduled", "Delayed"}

\* trip.status != SCHEDULED
CanStart(status) == status = "Scheduled"

\* the guard letting a delayed trip through
CanCompleteDelayed(status) == status \in {"Active", "Delayed"}

\* trip.status != ACTIVE
CanComplete(status) == status = "Active"

\* the guard letting an active trip through
CanCancelTripActive(status) == status \in {"Scheduled", "Delayed", "Active"}

\* trip.status not in [SCHEDULED, DELAYED]
CanCancelTrip(status) == status \in {"Scheduled", "Delayed"}

\* the guard letting a completed trip through
CanDelayCompleted(status) == status \in {"Scheduled", "Active", "Completed"}

\* trip.status not in [SCHEDULED, ACTIVE]
CanDelay(status) == status \in {"Scheduled", "Active"}

\* TripEvent.objects.create(...)
NewEvent(tp, trip, type, t) ==
    [trip |-> trip, event_type |-> type, timestamp |-> t, recorded_by |-> tp.driver]

\* a transition request that has passed its guards: the changed trip object
\* and the type of the event it goes on to record
TripRequest(op, u, t, tp, event) ==
    [IdleReq EXCEPT !.op = op, !.pc = "trip_save", !.user = u, !.trip = t,
                    !.tp = tp, !.event = event]

\* start_trip: get_object(), the guard, the changes to the object
StartTrip(r) ==
    /\ Free(r)
    /\ \E u \in Actors, t \in TripIds :
         IF trips[t].company # UserCompany(u) THEN Respond(r, "start_trip", "404")
         ELSE IF ~CanStart(trips[t].status)
         THEN Respond(r, "start_trip", "400:state")
         ELSE Continue(r, TripRequest("start_trip", u, t,
                            [trips[t] EXCEPT !.status = "Active",
                                             !.actual_departure = now],
                            "Departure"))
    /\ UNCHANGED <<trips, tickets, events, now, discounts, bookings, users>>

\* complete_trip
CompleteTrip(r) ==
    /\ Free(r)
    /\ \E u \in Actors, t \in TripIds :
         IF trips[t].company # UserCompany(u)
         THEN Respond(r, "complete_trip", "404")
         ELSE IF ~CanComplete(trips[t].status)
         THEN Respond(r, "complete_trip", "400:state")
         ELSE Continue(r, TripRequest("complete_trip", u, t,
                            [trips[t] EXCEPT !.status = "Completed",
                                             !.actual_arrival = now],
                            "Arrival"))
    /\ UNCHANGED <<trips, tickets, events, now, discounts, bookings, users>>

\* cancel_trip: the status guard comes before the reason guard; no event
CancelTrip(r) ==
    /\ Free(r)
    /\ \E u \in Actors, t \in TripIds, reason \in Reasons :
         IF trips[t].company # UserCompany(u)
         THEN Respond(r, "cancel_trip", "404")
         ELSE IF ~CanCancelTrip(trips[t].status)
         THEN Respond(r, "cancel_trip", "400:state")
         ELSE IF ~ReasonGiven(reason)
         THEN Respond(r, "cancel_trip", "400:reason")
         ELSE Continue(r, TripRequest("cancel_trip", u, t,
                            [trips[t] EXCEPT !.status = "Cancelled",
                                             !.cancellation_reason = reason],
                            "none"))
    /\ UNCHANGED <<trips, tickets, events, now, discounts, bookings, users>>

\* delay_trip
DelayTrip(r) ==
    /\ Free(r)
    /\ \E u \in Actors, t \in TripIds, reason \in Reasons :
         IF trips[t].company # UserCompany(u)
         THEN Respond(r, "delay_trip", "404")
         ELSE IF ~CanDelay(trips[t].status)
         THEN Respond(r, "delay_trip", "400:state")
         ELSE IF ~ReasonGiven(reason)
         THEN Respond(r, "delay_trip", "400:reason")
         ELSE Continue(r, TripRequest("delay_trip", u, t,
                            [trips[t] EXCEPT !.status = "Delayed",
                                             !.delay_reason = reason],
                            "Delay"))
    /\ UNCHANGED <<trips, tickets, events, now, discounts, bookings, users>>

\* trip.save() of the four transitions
TripSave(r) ==
    /\ req[r].pc = "trip_save"
    /\ LET q == req[r] IN
         /\ trips' = [trips EXCEPT ![q.trip] = q.tp]
         /\ IF q.op = "cancel_trip"
            THEN Respond(r, q.op, "200")
            ELSE Continue(r, [q EXCEPT !.pc = "trip_event"])
    /\ UNCHANGED <<tickets, events, now, discounts, bookings, users>>

\* TripEvent.objects.create(...) of start_trip, complete_trip and delay_trip
TripEventCreate(r) ==
    /\ req[r].pc = "trip_event"
    /\ LET q == req[r] IN
         /\ events' = Append(events, NewEvent(q.tp, q.trip, q.event,
                               IF q.op = "start_trip" THEN q.tp.actual_departure
                               ELSE IF q.op = "complete_trip" THEN q.tp.actual_arrival
                               ELSE now))
         /\ Respond(r, q.op, "200")
    /\ UNCHANGED <<trips, tickets, now, discounts, bookings, users>>

\* the status changes the four guards allow
TripEdges ==
    {<<x, "Active">> : x \in {y \in TripStatuses : CanStart(y)}}
    \cup {<<x, "Completed">> : x \in {y \in TripStatuses : CanComplete(y)}}
    \cup {<<x, "Cancelled">> : x \in {y \in TripStatuses : CanCancelTrip(y)}}
    \cup {<<x, "Delayed">> : x \in {y \in TripStatuses : CanDelay(y)}}

\* the statuses a trip can get to from a status in S by transition requests
RECURSIVE ReachableStatuses(_)
ReachableStatuses(S) ==
    LET N == S \cup {e[2] : e \in {f \in TripEdges : f[1] \in S}} IN
    IF N = S THEN S ELSE ReachableStatuses(N)

\* TripEvent.objects.create(...) raises (the database cannot be reached, the
\* worker is stopped): trip.save() has been committed, the exception handler
\* answers 500
TripEventFail(r) ==
    /\ req[r].pc = "trip_event"
    /\ Respond(r, req[r].op, "500")
    /\ UNCHANGED <<trips, tickets, events, now, discounts, bookings, users>>

\* --------------------------------------------------------- TripSerializer
\* validate() with the name datetime bound (the import in place)
TripValidateImported(data, company) ==
    IF data.route = Absent THEN "500"
    ELSE IF data.route # company THEN "400:route"
    ELSE IF data.bus = Absent THEN "500"
    ELSE IF data.bus # company THEN "400:bus"
    ELSE IF data.driver = Absent THEN "500"
    ELSE IF data.driver # company THEN "400:driver"
    ELSE IF data.conductor # Absent /\ data.conductor # company THEN "400:conductor"
    ELSE IF data.bus_status # "Active" THEN "400:bus"
    ELSE IF data.driver_role # "Driver" THEN "400:driver"
    ELSE IF (IF data.capacity = NoCapacity THEN 0 ELSE data.capacity) <= 0
    THEN "400:capacity"
    ELSE "ok"

\* validate(): data.get('route') is None when the request leaves the field
\* out (AttributeError); datetime is not imported in the module, so the
\* date comparison raises NameError; both are answered 500
TripValidate(data, company) ==
    IF data.route = Absent THEN "500"
    ELSE IF data.route # company THEN "400:route"
    ELSE IF data.bus = Absent THEN "500"
    ELSE IF data.bus # company THEN "400:bus"
    ELSE IF data.driver = Absent THEN "500"
    ELSE IF data.driver # company THEN "400:driver"
    ELSE IF data.conductor # Absent /\ data.conductor # company THEN "400:conductor"
    ELSE IF data.bus_status # "Active" THEN "400:bus"
    ELSE IF data.driver_role # "Driver" THEN "400:driver"
    ELSE IF (IF data.capacity = NoCapacity THEN 0 ELSE data.capacity) <= 0
    THEN "400:capacity"
    ELSE "500"

\* PUT or PATCH /trips/{id}/: get_object(), is_valid(), then update() writes
\* the fields given (status and capacity are writable)
TripUpdate(r) ==
    /\ Free(r)
    /\ \E u \in Actors, t \in TripIds, data \in TripUpdateInputs :
         LET v == TripValidate(data, UserCompany(u)) IN
         IF trips[t].company # UserCompany(u)
         THEN Respond(r, "trip_update", "404") /\ UNCHANGED trips
         ELSE IF v # "ok"
         THEN Respond(r, "trip_update", v) /\ UNCHANGED trips
         ELSE /\ trips' = [trips EXCEPT ![t] =
                            [@ EXCEPT !.status = IF data.status = Absent
                                                 THEN @ ELSE data.status,
                                      !.capacity = IF data.capacity = NoCapacity
                                                   THEN @ ELSE data.capacity]]
              /\ Respond(r, "trip_update", "200")
    /\ UNCHANGED <<tickets, events, now, discounts, bookings, users>>

\* the row TripSerializer.create inserts: the company of the caller, the
\* status default
NewTrip(company, data) ==
    [company |-> company,
     status |-> IF data.status = Absent THEN "Scheduled" ELSE data.status,
     capacity |-> data.capacity, booked_seats |-> 0, driver |-> "ed",
     actual_departure |-> NoTime, actual_arrival |-> NoTime,
     delay_reason |-> Null, cancellation_reason |-> Null]

\* POST /trips/ with every required field in the request
TripCreateBegin(r) ==
    /\ Free(r)
    /\ NewTripId \notin DOMAIN trips
    /\ \E u \in Actors, data \in TripCreateInputs :
         Continue(r, [IdleReq EXCEPT !.op = "trip_create", !.pc = "trip_create",
                                     !.user = u, !.data = data])
    /\ UNCHANGED <<trips, tickets, events, now, discounts, bookings, users>>

\* serializer.is_valid(raise_exception=True), then create() inserts the row
TripCreate(r) ==
    /\ req[r].pc = "trip_create"
    /\ LET q == req[r]
           v == TripValidate(q.data, UserCompany(q.user))
       IN IF v # "ok"
          THEN Respond(r, "trip_create", v) /\ UNCHANGED trips
          ELSE /\ trips' = [t \in DOMAIN trips \cup {NewTripId} |->
                              IF t \in DOMAIN trips THEN trips[t]
                              ELSE NewTrip(UserCompany(q.user), q.data)]
               /\ Respond(r, "trip_create", "201")
    /\ UNCHANGED <<tickets, events, now, discounts, bookings, users>>

\* -------------------------------------------------------- DiscountViewSet
\* get_queryset().filter(code=code, is_active=True, start_date__lte=now)
\*               .filter(Q(end_date__isnull=True) | Q(end_date__gte=now))
DiscountMatches(u, code, t) ==
    {i \in DOMAIN discounts :
       /\ discounts[i].company = UserCompany(u)
       /\ discounts[i].code = code
       /\ discounts[i].is_active
       /\ discounts[i].start_date <= t
       /\ (discounts[i].end_date = NoTime \/ discounts[i].end_date >= t)}

\* discount.usage_limit and discount.usage_count >= discount.usage_limit
\* (None and 0 are falsy)
LimitReached(d) ==
    d.usage_limit # NoLimit /\ d.usage_limit # 0 /\ d.usage_count >= d.usage_limit

\* the answer of validate_code once the code is known to be non-empty:
\* .get() raises DoesNotExist (404) or MultipleObjectsReturned (unhandled)
ValidateCodeAnswer(u, code, t) ==
    LET m == DiscountMatches(u, code, t) IN
    IF m = {} THEN "404"
    ELSE IF Cardinality(m) > 1 THEN "500"
    ELSE IF LimitReached(discounts[CHOOSE i \in m : TRUE]) THEN "400:limit"
    ELSE "200"

\* code = request.data.get('code'); if not code: 400
ValidateCodeBegin(r) ==
    /\ Free(r)
    /\ \E u \in Actors, code \in CodeInputs :
         IF code = "" THEN Respond(r, "validate_code", "400:code")
         ELSE Continue(r, [IdleReq EXCEPT !.op = "validate_code",
                                          !.pc = "validate_code_query",
                                          !.user = u, !.code = code])
    /\ UNCHANGED <<trips, tickets, events, now, discounts, bookings, users>>

\* now = timezone.now(), the query, the limit test, the response
ValidateCodeQuery(r) ==
    /\ req[r].pc = "validate_code_query"
    /\ Respond(r, "validate_code", ValidateCodeAnswer(req[r].user, req[r].code, now))
    /\ UNCHANGED <<trips, tickets, events, now, discounts, bookings, users>>

\* activate (to = TRUE) and deactivate (to = FALSE): get_object() and the guard
DiscountSwitchBegin(r) ==
    /\ Free(r)
    /\ \E u \in Actors, id \in DOMAIN discounts, to \in BOOLEAN :
         LET op == IF to THEN "activate" ELSE "deactivate" IN
         IF discounts[id].company # UserCompany(u) THEN Respond(r, op, "404")
         ELSE IF discounts[id].is_active = to THEN Respond(r, op, "400:state")
         ELSE Continue(r, [IdleReq EXCEPT !.op = op, !.pc = "discount_save",
                                          !.user = u, !.id = id,
                                          !.dc = [discounts[id] EXCEPT !.is_active = to]])
    /\ UNCHANGED <<trips, tickets, events, now, discounts, bookings, users>>

\* discount.save()
DiscountSave(r) ==
    /\ req[r].pc = "discount_save"
    /\ discounts' = [discounts EXCEPT ![req[r].id] = req[r].dc]
    /\ Respond(r, req[r].op, "200")
    /\ UNCHANGED <<trips, tickets, events, now, bookings, users>>

\* DiscountSerializer.validate(data): data holds the keys the request sent
DiscountValidate(data) ==
    IF /\ data.end_date # NoTime /\ data.start_date # NoTime
       /\ data.end_date <= data.start_date
    THEN "400:end_date"
    ELSE IF /\ data.type = "Percentage"
            /\ (IF data.value = NoValue THEN 0 ELSE data.value) > MaxPercentage
    THEN "400:value"
    ELSE "ok"

\* the row the insert writes: a key the request left out takes the column's
\* default
NewDiscount(company, code, data) ==
    [company |-> company, code |-> code, is_active |-> TRUE,
     start_date |-> data.start_date, end_date |-> data.end_date,
     usage_limit |-> NoLimit, usage_count |-> 0,
     type |-> IF data.type = Absent THEN DefaultDiscountType ELSE data.type,
     value |-> data.value]

\* ModelSerializer.update: setattr for the keys the request sent
UpdatedDiscount(d, data) ==
    [d EXCEPT !.type = IF data.type = Absent THEN @ ELSE data.type,
              !.value = IF data.value = NoValue THEN @ ELSE data.value,
              !.start_date = IF data.start_date = NoTime THEN @ ELSE data.start_date,
              !.end_date = IF data.end_date = NoTime THEN @ ELSE data.end_date]

\* POST /discounts/: value and start_date are required, code is unique
DiscountCreate(r) ==
    /\ Free(r)
    /\ Len(discounts) < MaxDiscounts
    /\ \E u \in Actors, code \in NewCodes, data \in DiscountInputs :
         /\ data.value # NoValue
         /\ LET answer ==
                  IF \E i \in DOMAIN discounts : discounts[i].code = code
                  THEN "400:code"
                  ELSE DiscountValidate(data)
            IN IF answer = "ok"
               THEN /\ discounts' = Append(discounts,
                                           NewDiscount(UserCompany(u), code, data))
                    /\ Respond(r, "discount_create", "201")
               ELSE /\ Respond(r, "discount_create", answer)
                    /\ UNCHANGED discounts
    /\ UNCHANGED <<trips, tickets, events, now, bookings, users>>

\* PUT and PATCH /discounts/{id}/: a key that is left out (type always may be,
\* value and start_date on PATCH) is not in data and keeps its stored value
DiscountUpdate(r) ==
    /\ Free(r)
    /\ \E u \in Actors, id \in DOMAIN discounts, partial \in BOOLEAN,
          data \in DiscountInputs :
         LET op == IF partial THEN "discount_patch" ELSE "discount_put"
             sent == IF partial
                     THEN [data EXCEPT !.start_date = NoTime]
                     ELSE data
             answer == IF discounts[id].company # UserCompany(u) THEN "404"
                       ELSE DiscountValidate(sent)
         IN /\ partial \/ data.value # NoValue
            /\ IF answer = "ok"
               THEN /\ discounts' = [discounts EXCEPT
                                       ![id] = UpdatedDiscount(@, sent)]
                    /\ Respond(r, op, "200")
               ELSE /\ Respond(r, op, answer)
                    /\ UNCHANGED discounts
    /\ UNCHANGED <<trips, tickets, events, now, bookings, users>>

\* -------------------------------------------------------- BookingViewSet
\* the ticket lists a request can send: primary keys in any order, one of them
\* possibly of no stored ticket
ListedInputs ==
    UNION {[1..n -> 1..(MaxBookingTickets + 1)] : n \in 0..MaxListed}

\* Ticket has no booking column: the attribute that create sets lives on the
\* in-memory object only, and save() writes the columns of the model
BookingOf(tk) == NoBooking

\* @transaction.atomic: the writes of the block are committed together, or
\* none of them when the block raises
AtomicAutocommit(failed, before, after) == after

Atomic(failed, before, after) == IF failed THEN before ELSE after

\* POST /bookings/: PrimaryKeyRelatedField(queryset=Ticket.objects.all())
\* loads each listed ticket, of whatever company (the request carries no
\* customer)
BookingBegin(r) ==
    /\ Free(r)
    /\ Len(bookings) < MaxBookings
    /\ \E u \in Actors, listed \in ListedInputs :
         IF \E i \in DOMAIN listed : listed[i] \notin TicketIds
         THEN Respond(r, "booking_create", "400:tickets")
         ELSE Continue(r, [IdleReq EXCEPT !.op = "booking_create",
                                          !.pc = "booking_create",
                                          !.user = u, !.listed = listed,
                                          !.tk = [i \in DOMAIN listed |->
                                                    tickets[listed[i]]]])
    /\ UNCHANGED <<trips, tickets, events, now, discounts, bookings, users>>

\* the tickets table after ticket.save() of the listed tickets 1..n, each
\* written as it was loaded
SavedTickets(q, n) ==
    [j \in DOMAIN tickets |->
       IF \E i \in 1..n : q.listed[i] = j
       THEN q.tk[CHOOSE i \in 1..n : q.listed[i] = j]
       ELSE tickets[j]]

\* BookingSerializer.create: the booking is inserted, then the tickets are
\* walked in order and the first one of another company raises
\* ValidationError. The response of a committed create serialises the
\* declared field 'tickets' from an attribute the Booking model does not
\* have: it is 201 or an unhandled AttributeError (500), by the release of
\* rest_framework installed.
BookingCreate(r) ==
    LET q == req[r]
        company == UserCompany(q.user)
        bad == {i \in DOMAIN q.listed : q.tk[i].company # company}
        failed == bad # {}
        n == IF failed THEN Min(bad) - 1 ELSE Len(q.listed)
    IN /\ q.pc = "booking_create"
       /\ bookings' = Atomic(failed, bookings,
                             Append(bookings, [company |-> company]))
       /\ tickets' = Atomic(failed, tickets, SavedTickets(q, n))
       /\ IF failed
          THEN Respond(r, "booking_create", "400:ticket_company")
          ELSE \E code \in {"201", "500"} : Respond(r, "booking_create", code)
       /\ UNCHANGED <<trips, events, now, discounts, users>>

\* GET /bookings/{id}/tickets/: get_object() over the caller's company, then
\* Ticket.objects.filter(booking=booking) raises FieldError, which the
\* exception handler turns into 500
BookingTickets(r) ==
    /\ Free(r)
    /\ \E u \in Actors, id \in DOMAIN bookings :
         IF bookings[id].company # UserCompany(u)
         THEN Respond(r, "booking_tickets", "404")
         ELSE Respond(r, "booking_tickets", "500")
    /\ UNCHANGED <<trips, tickets, events, now, discounts, bookings, users>>

\* ----------------------------------------------------------- UserViewSet
\* PATCH /users/{id}/ {company_id}: get_object() over the users of the
\* caller's company, then UserSerializer.update sets the company named by
\* company_id, whichever it is
UserUpdate(r) ==
    /\ Free(r)
    /\ \E u \in Actors, id \in Users, c \in CompanyInputs :
         IF UserCompany(id) # UserCompany(u)
         THEN Respond(r, "user_update", "404") /\ UNCHANGED users
         ELSE IF c \notin Companies
         THEN Respond(r, "user_update", "400:company_id") /\ UNCHANGED users
         ELSE /\ users' = [users EXCEPT ![id] = c]
              /\ Respond(r, "user_update", "200")
    /\ UNCHANGED <<trips, tickets, events, now, discounts, bookings>>

\* ------------------------------------------------------------------ clock
Tick ==
    /\ now < MaxClock
    /\ now' = now + 1
    /\ out' = NoResponse
    /\ UNCHANGED <<trips, tickets, events, req, discounts, bookings, users>>

\* ------------------------------------------------------------------- init
InitTrip(cap) ==
    [company |-> "A", status |-> "Scheduled", capacity |-> cap, booked_seats |-> 0,
     driver |-> "ed", actual_departure |-> NoTime, actual_arrival |-> NoTime,
     delay_reason |-> Null, cancellation_reason |-> Null]

Init ==
    /\ \E cap \in 1..MaxCapacity : trips = [t \in TripIds |-> InitTrip(cap)]
    /\ tickets = <<>>
    /\ events = <<>>
    /\ discounts = <<>>
    /\ bookings = <<>>
    /\ users = InitUsers
    /\ req = [r \in Requests |-> IdleReq]
    /\ out = NoResponse
    /\ now = 0

\* the discount rows the table can hold: DiscountSerializer.validate keeps
\* end_date after start_date
DiscountRows ==
    {d \in [company : {"A", "B"}, code : DiscountCodes, is_active : BOOLEAN,
            start_date : 0..MaxDate, end_date : {NoTime} \cup 0..MaxDate,
            usage_limit : {NoLimit} \cup 0..MaxUsage, usage_count : 0..MaxUsage,
            type : {DefaultDiscountType}, value : {50}] :
       d.end_date = NoTime \/ d.end_date > d.start_date}

\* one discount in the table, at any time of its life
DiscountInit ==
    /\ trips = [t \in TripIds |-> InitTrip(1)]
    /\ tickets = <<>>
    /\ events = <<>>
    /\ discounts \in [DiscountIds -> DiscountRows]
    /\ bookings = <<>>
    /\ users = InitUsers
    /\ req = [r \in Requests |-> IdleReq]
    /\ out = NoResponse
    /\ now \in 0..MaxDate

\* tickets of two companies on their own trips, no booking yet
BookingInit ==
    /\ \E comp \in [1..MaxBookingTickets -> {"A", "B"}] :
         /\ tickets = [i \in 1..MaxBookingTickets |->
                         NewTicket(comp[i], IF comp[i] = "A" THEN "t1" ELSE "t2",
                                   Absent, NoTime, i, 0)]
         /\ trips = [t \in BookingTripIds |->
                       LET c == IF t = "t1" THEN "A" ELSE "B" IN
                       [InitTrip(MaxBookingTickets) EXCEPT
                          !.company = c,
                          !.booked_seats =
                             Cardinality({i \in 1..MaxBookingTickets :
                                            comp[i] = c})]]
    /\ events = <<>>
    /\ discounts = <<>>
    /\ bookings = <<>>
    /\ users = InitUsers
    /\ req = [r \in Requests |-> IdleReq]
    /\ out = NoResponse
    /\ now = 0

\* ------------------------------------------------------------- requests
\* POST /tickets/, while the table holds fewer than max rows (inserts under
\* way counted)
Issue(r, max) ==
    \/ Len(tickets) + Cardinality(PendingIssues) < max /\ IssueValidate(r)
    \/ IssueCreate(r)
    \/ IssueSaveTrip(r)

\* POST /tickets/{id}/cancel/
Cancel(r) ==
    \/ CancelBegin(r)
    \/ CancelSaveTicket(r)
    \/ CancelLoadTrip(r)
    \/ CancelSaveTrip(r)

\* POST /tickets/{id}/check-in/
CheckIn(r) == CheckInBegin(r) \/ CheckInSave(r)

\* POST /tickets/{id}/refund/
Refund(r) == RefundBegin(r) \/ RefundSave(r)

\* PATCH /tickets/{id}/
Update(r) ==
    \/ UpdateBegin(r)
    \/ UpdateLoadTrip(r)
    \/ UpdateSaveTrip(r)
    \/ UpdateSave(r)

\* POST /trips/{id}/start-trip/, complete-trip/, cancel-trip/, delay-trip/
TripTransition(r) ==
    \/ StartTrip(r)
    \/ CompleteTrip(r)
    \/ CancelTrip(r)
    \/ DelayTrip(r)
    \/ TripSave(r)
    \/ TripEventCreate(r)

\* POST /discounts/validate_code/
ValidateCode(r) == ValidateCodeBegin(r) \/ ValidateCodeQuery(r)

\* POST /discounts/{id}/activate/ and /deactivate/
DiscountSwitch(r) == DiscountSwitchBegin(r) \/ DiscountSave(r)

\* --------------------------------------------------------- specifications
\* The seat ledger: tickets issued and cancelled on a trip that moves through
\* its transitions, the requests served one after the other.
LedgerNext ==
    \/ Tick
    \/ Issue("r1", MaxTickets)
    \/ Cancel("r1")
    \/ TripTransition("r1")

LedgerSpec == Init /\ [][LedgerNext]_vars

\* The life of a ticket: every ticket endpoint, the requests served one after
\* the other.
LifecycleNext ==
    \/ Tick
    \/ Issue("r1", MaxLifecycleTickets)
    \/ CheckIn("r1")
    \/ Cancel("r1")
    \/ Refund("r1")
    \/ Update("r1")

LifecycleSpec == Init /\ [][LifecycleNext]_vars

\* The ticket endpoints with the generic update and delete, and with the trip
\* save of an issuance failing or not; the requests served one after the
\* other.
TicketNext ==
    \/ Issue("r1", MaxLifecycleTickets)
    \/ IssueFail("r1")
    \/ CheckIn("r1")
    \/ Cancel("r1")
    \/ Refund("r1")
    \/ Update("r1")
    \/ TicketDelete("r1")

TicketSpec == Init /\ [][TicketNext]_vars

\* Issue and cancel requests served concurrently by two workers.
Next == \E r \in Requests : Issue(r, MaxTickets) \/ Cancel(r)

Spec == Init /\ [][Next]_vars

\* Ticket requests served by one worker while another serves the transitions
\* of the same trip.
RaceNext ==
    \/ Issue("r1", MaxLifecycleTickets)
    \/ Cancel("r1")
    \/ TripTransition("r2")

RaceSpec == Init /\ [][RaceNext]_vars

\* Transitions of the same trip served concurrently by two workers.
TripRaceNext == \E r \in Requests : TripTransition(r)

TripRaceSpec == Init /\ [][TripRaceNext]_vars

\* The life of a trip: its transitions, with the event write failing or not,
\* and the generic update, on a trip that tickets are issued for; the
\* requests served one after the other.
TripNext ==
    \/ Tick
    \/ Issue("r1", MaxLifecycleTickets)
    \/ TripTransition("r1")
    \/ TripEventFail("r1")
    \/ TripUpdate("r1")
    \/ TripCreateBegin("r1")
    \/ TripCreate("r1")

TripSpec == Init /\ [][TripNext]_vars

\* Discount codes validated while the discount is switched on and off, the
\* requests served one after the other.
DiscountNext == ValidateCode("r1") \/ DiscountSwitch("r1")

DiscountSpec == DiscountInit /\ [][DiscountNext]_vars

\* Discounts created and edited through the discount API, from an empty table.
DiscountEditNext == DiscountCreate("r1") \/ DiscountUpdate("r1")

DiscountEditSpec == Init /\ [][DiscountEditNext]_vars

\* Bookings created over stored tickets and their tickets listed, the
\* requests served one after the other.
BookingNext == BookingBegin("r1") \/ BookingCreate("r1") \/ BookingTickets("r1")

BookingSpec == BookingInit /\ [][BookingNext]_vars

\* Tickets issued and checked in while users are moved between companies,
\* the requests served one after the other.
TenantNext ==
    \/ Issue("r1", MaxLifecycleTickets)
    \/ CheckIn("r1")
    \/ UserUpdate("r1")

TenantSpec == Init /\ [][TenantNext]_vars

\* ----------------------------------------------------------------- claims
\* the request in slot r takes a step
Steps(r) == req'[r] # req[r]

\* the database is left as it is
DbUnchanged ==
    /\ tickets' = tickets /\ trips' = trips /\ events' = events
    /\ discounts' = discounts /\ bookings' = bookings /\ users' = users

\* C1: every trip has 0 <= booked_seats <= capacity under concurrent Issue and
\* Cancel requests, and two concurrent Issue requests that both read the last
\* free seat of a trip do not both succeed (both insert their ticket).
C1_NoOverbooking ==
    /\ \A t \in TripIds :
         0 <= trips[t].booked_seats /\ trips[t].booked_seats <= trips[t].capacity
    /\ \A r1, r2 \in Requests :
         ~ /\ r1 # r2
           /\ req[r1].pc = "issue_save_trip" /\ req[r2].pc = "issue_save_trip"
           /\ req[r1].trip = req[r2].trip
           /\ req[r1].tp.booked_seats = req[r1].tp.capacity - 1
           /\ req[r2].tp.booked_seats = req[r2].tp.capacity - 1

\* C2: an Issue on a trip with booked_seats >= capacity is answered with the
\* capacity-exceeded error, inserts no ticket and leaves the trip as it is.
C2_FullTripRejected ==
    [][\A r \in Requests :
         (/\ req[r].pc = "issue_create" /\ Steps(r)
          /\ trips[req[r].trip].booked_seats >= trips[req[r].trip].capacity)
         => /\ out' = [op |-> "issue", code |-> "400:no_seats"]
            /\ req'[r].pc = "idle"
            /\ DbUnchanged]_vars

\* C2 witness: a full trip has just refused an Issue.
C2_Witness ==
    /\ out = [op |-> "issue", code |-> "400:no_seats"]
    /\ \E t \in TripIds : trips[t].booked_seats = trips[t].capacity
    /\ Len(tickets) > 0

\* C3 as stated: an Issue on a Cancelled or Completed trip is always answered
\* with the invalid-trip-state error, inserts no ticket and leaves booked_seats.
C3_ClosedTripRejected ==
    [][\A r \in Requests :
         (/\ req[r].pc = "issue_create" /\ Steps(r)
          /\ trips[req[r].trip].status \in {"Cancelled", "Completed"})
         => /\ out' = [op |-> "issue", code |-> "400:trip_state"]
            /\ DbUnchanged]_vars

\* C3 amended: an Issue on a Cancelled or Completed trip always fails, inserts
\* no ticket and leaves booked_seats; the error is the invalid-trip-state error
\* when the trip has a free seat and the capacity-exceeded error when it is full.
C3_ClosedTripRejectedAmended ==
    [][\A r \in Requests :
         (/\ req[r].pc = "issue_create" /\ Steps(r)
          /\ trips[req[r].trip].status \in {"Cancelled", "Completed"})
         => /\ out'.op = "issue"
            /\ out'.code = IF trips[req[r].trip].booked_seats < trips[req[r].trip].capacity
                           THEN "400:trip_state" ELSE "400:no_seats"
            /\ req'[r].pc = "idle"
            /\ DbUnchanged]_vars

\* C3 witness: a Cancelled or Completed trip with a free seat has just refused
\* an Issue with the invalid-trip-state error.
C3_Witness ==
    /\ out = [op |-> "issue", code |-> "400:trip_state"]
    /\ \E t \in TripIds : /\ trips[t].status \in {"Cancelled", "Completed"}
                          /\ trips[t].booked_seats < trips[t].capacity

\* the ticket transition table
TicketTransitions ==
    {<<"Reserved", "Confirmed">>, <<"Confirmed", "Checked In">>,
     <<"Reserved", "Checked In">>, <<"Checked In", "Used">>,
     <<"Reserved", "Cancelled">>, <<"Confirmed", "Cancelled">>,
     <<"Cancelled", "Refunded">>, <<"Reserved", "Expired">>}

\* C4: a newly issued ticket is Reserved and every change of a ticket's status
\* is an edge of the ticket transition table.
C4_TicketTransitionTable ==
    [][/\ \A i \in TicketIds :
            tickets'[i].status # tickets[i].status
            => <<tickets[i].status, tickets'[i].status>> \in TicketTransitions
       /\ Len(tickets') > Len(tickets)
            => tickets'[Len(tickets')].status = "Reserved"]_vars

\* C5: the seats of a ticket are given back at most once: a cancellation goes
\* through (writes Cancelled and goes on to decrement booked_seats) only on a
\* ticket that is still Reserved or Confirmed; on a ticket that is already
\* Cancelled it fails.
C5_SingleDecrement ==
    [][\A r \in Requests :
         (req[r].pc = "cancel_save_ticket" /\ Steps(r))
         => tickets[req[r].id].status \in {"Reserved", "Confirmed"}]_vars

\* a ticket that holds a seat of its trip
HoldsSeat(tk) == tk.status \in {"Reserved", "Confirmed"}

\* C6: seat reuse.  An Issue on an open trip with a free seat inserts the
\* ticket and raises booked_seats by one; an Issue on a full trip is refused
\* and booked_seats stays; a Cancel that goes through lowers booked_seats by
\* one.  So on a trip of capacity 2: Issue A (1), Issue B (2), Issue C refused
\* (2), Cancel A (1), Issue C (2).
C6_SeatReuse ==
    [][\A r \in Requests :
         LET q == req[r] IN
         /\ (/\ q.pc = "issue_create" /\ Steps(r)
             /\ trips[q.trip].status \notin {"Cancelled", "Completed"}
             /\ trips[q.trip].booked_seats < trips[q.trip].capacity)
            => /\ req'[r].pc = "issue_save_trip"
               /\ Len(tickets') = Len(tickets) + 1
               /\ HoldsSeat(tickets'[Len(tickets')])
               /\ trips' = trips
         /\ (q.pc = "issue_save_trip" /\ Steps(r))
            => /\ out' = [op |-> "issue", code |-> "201"]
               /\ trips'[q.trip].booked_seats = trips[q.trip].booked_seats + 1
               /\ trips'[q.trip].booked_seats <= trips[q.trip].capacity
               /\ tickets' = tickets
         /\ (/\ q.pc = "issue_create" /\ Steps(r)
             /\ trips[q.trip].booked_seats = trips[q.trip].capacity)
            => /\ out' = [op |-> "issue", code |-> "400:no_seats"]
               /\ DbUnchanged
         /\ (q.pc = "cancel_save_trip" /\ Steps(r))
            => /\ out' = [op |-> "cancel", code |-> "200"]
               /\ trips[q.trip].booked_seats > 0
               /\ trips'[q.trip].booked_seats = trips[q.trip].booked_seats - 1
               /\ tickets[q.id].status = "Cancelled"]_vars

\* C6 witness: the end of the scenario.  Capacity 2, ticket A cancelled with its
\* reason, B and C hold the two seats, and C was issued last: it got the seat
\* A gave back.
C6_Witness ==
    /\ out = [op |-> "issue", code |-> "201"]
    /\ Len(tickets) = 3
    /\ tickets[1].status = "Cancelled"
    /\ tickets[1].cancellation_reason = "changed plans"
    /\ HoldsSeat(tickets[2]) /\ HoldsSeat(tickets[3])
    /\ trips["t1"].capacity = 2
    /\ trips["t1"].booked_seats = 2

\* C7: Cancel goes through only with a non-empty reason on a Reserved or
\* Confirmed ticket; it then writes status Cancelled, the reason and the date,
\* and booked_seats becomes max(0, booked_seats - 1); a Cancel that fails
\* leaves the tickets and the trips as they are.
C7_CancelContract ==
    [][/\ \A r \in Requests :
            LET q == req[r] IN
            /\ (q.pc = "idle" /\ req'[r].pc = "cancel_save_ticket")
               => /\ req'[r].reason # ""
                  /\ tickets[req'[r].id].status \in {"Reserved", "Confirmed"}
                  /\ DbUnchanged
            /\ (q.pc = "cancel_save_ticket" /\ Steps(r))
               => /\ tickets' = [tickets EXCEPT ![q.id] =
                                   [@ EXCEPT !.status = "Cancelled",
                                             !.cancellation_reason = q.reason,
                                             !.cancellation_date = now]]
                  /\ trips' = trips
            /\ (q.pc = "cancel_load_trip" /\ Steps(r)) => DbUnchanged
            /\ (q.pc = "cancel_save_trip" /\ Steps(r))
               => /\ out' = [op |-> "cancel", code |-> "200"]
                  /\ tickets' = tickets
                  /\ tickets[q.id].status = "Cancelled"
                  /\ tickets[q.id].cancellation_reason # ""
                  /\ tickets[q.id].cancellation_date # NoTime
                  /\ trips' = [trips EXCEPT ![q.trip].booked_seats =
                                 IF @ - 1 < 0 THEN 0 ELSE @ - 1]
       /\ (out'.op = "cancel" /\ out'.code = "200")
          => \E r \in Requests : req[r].pc = "cancel_save_trip" /\ Steps(r)
       /\ (out'.op = "cancel" /\ out'.code # "200") => DbUnchanged]_vars

\* C7 witness: a Cancel that has passed its guards and written the ticket
\* Cancelled is about to save a trip it read with booked_seats = 0: the floor
\* keeps it at 0.
C7_Witness ==
    \E r \in Requests : /\ req[r].pc = "cancel_save_trip"
                        /\ req[r].reason = "changed plans"
                        /\ req[r].tp.booked_seats = 0
                        /\ tickets[req[r].id].status = "Cancelled"
                        /\ tickets[req[r].id].cancellation_reason = "changed plans"

C9_RefundContract ==
    [][/\ \A r \in Requests :
            LET q == req[r] IN
            /\ (q.pc = "idle" /\ req'[r].pc = "refund_save")
               => /\ tickets[req'[r].id].status = "Cancelled"
                  /\ req'[r].amount # 0
                  /\ DbUnchanged
            /\ (q.pc = "refund_save" /\ Steps(r))
               => /\ out' = [op |-> "refund", code |-> "200"]
                  /\ tickets' = [tickets EXCEPT ![q.id] =
                                   [@ EXCEPT !.status = "Refunded",
                                             !.refund_amount = q.amount,
                                             !.refund_date = now,
                                             !.refund_reference = q.refund_ref]]
                  /\ trips' = trips
       /\ (out'.op = "refund" /\ out'.code = "200")
          => \E r \in Requests : req[r].pc = "refund_save" /\ Steps(r)
       /\ (out'.op = "refund" /\ out'.code # "200") => DbUnchanged]_vars

\* C9 witness: a cancelled ticket has just been refunded, and its seat is
\* still given back.
C9_Witness ==
    /\ out = [op |-> "refund", code |-> "200"]
    /\ \E i \in TicketIds : /\ tickets[i].status = "Refunded"
                            /\ tickets[i].refund_amount = 5
                            /\ tickets[i].refund_date = now
                            /\ tickets[i].refund_reference = "RF1"
                            /\ tickets[i].cancellation_reason = "changed plans"
                            /\ trips[tickets[i].trip].booked_seats = 0

\* C10: a ticket issued by a request that gives no status is Reserved and its
\* expires_at is the issue time plus 24 hours.
C10_DefaultExpiry ==
    [][\A r \in Requests :
         (/\ req[r].pc = "issue_create" /\ req'[r].pc = "issue_save_trip"
          /\ req[r].status_in = Absent)
         => /\ tickets'[Len(tickets')].status = "Reserved"
            /\ tickets'[Len(tickets')].expires_at = now + ExpiryHours]_vars

\* the step of this moment is the request in slot r, a trip transition op,
\* leaving the position pc
TripStep(r, op, pc) == req[r].op = op /\ req[r].pc = pc /\ Steps(r)

\* the request in slot r is taken up as the trip transition op, its guards
\* passed
TripAccepted(r, op) ==
    req[r].pc = "idle" /\ req'[r].op = op /\ req'[r].pc = "trip_save"

\* the step appends exactly one event
AppendsOne ==
    Len(events') = Len(events) + 1 /\ SubSeq(events', 1, Len(events)) = events

\* the event the step appends
Appended == events'[Len(events')]

\* what the three event-emitting transitions have in common: accepted only
\* from a status in From; the trip write sets status to and appends nothing;
\* the answer 200 comes with exactly one event of the type, attributed to the
\* trip's driver; a refused request (400, 404) writes nothing
EventTransitionContract(op, From, to, type) ==
    /\ \A r \in Requests :
         LET q == req[r] IN
         /\ TripAccepted(r, op)
            => trips[req'[r].trip].status \in From /\ DbUnchanged
         /\ TripStep(r, op, "trip_save")
            => /\ trips[q.trip].status \in From
               /\ trips'[q.trip].status = to
               /\ events' = events /\ tickets' = tickets
               /\ trips'[q.trip].booked_seats = trips[q.trip].booked_seats
               /\ trips'[q.trip].capacity = trips[q.trip].capacity
         /\ (TripStep(r, op, "trip_event") /\ out'.code = "200")
            => /\ AppendsOne
               /\ Appended.trip = q.trip
               /\ Appended.event_type = type
               /\ Appended.recorded_by = trips[q.trip].driver
               /\ trips' = trips /\ tickets' = tickets
    /\ (out'.op = op /\ out'.code = "200")
       => \E r \in Requests : TripStep(r, op, "trip_event")
    /\ (out'.op = op /\ out'.code \in {"400:state", "400:reason", "404"})
       => DbUnchanged

\* C11: Start is accepted only on a Scheduled trip; it then sets status
\* Active and actual_departure and appends exactly one Departure event
\* attributed to the trip's driver, stamped with actual_departure; on any other
\* status it fails, the trip is unchanged and no event is appended.
C11_StartContract ==
    [][/\ EventTransitionContract("start_trip", {"Scheduled"}, "Active", "Departure")
       /\ \A r \in Requests :
            LET q == req[r] IN
            /\ TripStep(r, "start_trip", "trip_save")
               => /\ trips'[q.trip].actual_departure \in 0..now
                  /\ trips'[q.trip] =
                        [trips[q.trip] EXCEPT !.status = "Active",
                           !.actual_departure = trips'[q.trip].actual_departure]
            /\ (TripStep(r, "start_trip", "trip_event") /\ out'.code = "200")
               => Appended.timestamp = trips[q.trip].actual_departure
       /\ (out'.op = "start_trip" /\ req' = req /\ out'.code # "404")
          => \E t \in TripIds : trips[t].status # "Scheduled"]_vars

\* C11 witness: a trip has just been started: Active, departed, and the last
\* event is its Departure, recorded by its driver.
C11_Witness ==
    /\ out = [op |-> "start_trip", code |-> "200"]
    /\ trips["t1"].status = "Active"
    /\ trips["t1"].actual_departure # NoTime
    /\ Len(events) = 1
    /\ events[1].event_type = "Departure"
    /\ events[1].recorded_by = trips["t1"].driver

\* C12: Complete is accepted only on an Active trip; it then sets status
\* Completed and actual_arrival and appends exactly one Arrival event; on any
\* other status it fails, the trip is unchanged and no event is appended.
C12_CompleteContract ==
    [][/\ EventTransitionContract("complete_trip", {"Active"}, "Completed", "Arrival")
       /\ \A r \in Requests :
            LET q == req[r] IN
            /\ TripStep(r, "complete_trip", "trip_save")
               => /\ trips'[q.trip].actual_arrival \in 0..now
                  /\ trips'[q.trip] =
                        [trips[q.trip] EXCEPT !.status = "Completed",
                           !.actual_arrival = trips'[q.trip].actual_arrival]
            /\ (TripStep(r, "complete_trip", "trip_event") /\ out'.code = "200")
               => Appended.timestamp = trips[q.trip].actual_arrival
       /\ (out'.op = "complete_trip" /\ req' = req /\ out'.code # "404")
          => \E t \in TripIds : trips[t].status # "Active"]_vars

\* C12 witness: a trip has just been completed: Completed, arrived, and the
\* last event is its Arrival, after its Departure.
C12_Witness ==
    /\ out = [op |-> "complete_trip", code |-> "200"]
    /\ trips["t1"].status = "Completed"
    /\ trips["t1"].actual_arrival # NoTime
    /\ Len(events) = 2
    /\ events[1].event_type = "Departure"
    /\ events[2].event_type = "Arrival"

\* C13: Delay is accepted only with a non-empty reason on a Scheduled or
\* Active trip; it then sets status Delayed, records the reason and appends a
\* Delay event; otherwise it fails, the trip is unchanged and no event is
\* appended.
C13_DelayContract ==
    [][/\ EventTransitionContract("delay_trip", {"Scheduled", "Active"}, "Delayed",
                                  "Delay")
       /\ \A r \in Requests :
            LET q == req[r] IN
            TripStep(r, "delay_trip", "trip_save")
            => /\ trips'[q.trip].delay_reason \in Reasons \ {""}
               /\ trips'[q.trip] =
                     [trips[q.trip] EXCEPT !.status = "Delayed",
                        !.delay_reason = trips'[q.trip].delay_reason]
       /\ (out'.op = "delay_trip" /\ out'.code = "400:state")
          => \E t \in TripIds : trips[t].status \notin {"Scheduled", "Active"}]_vars

\* C13 witness: an Active trip has just been marked Delayed with its reason,
\* and the last event is the Delay.
C13_Witness ==
    /\ out = [op |-> "delay_trip", code |-> "200"]
    /\ trips["t1"].status = "Delayed"
    /\ trips["t1"].delay_reason = "changed plans"
    /\ trips["t1"].actual_departure # NoTime
    /\ Len(events) = 2
    /\ events[2].event_type = "Delay"

\* C14: Cancel of a trip is accepted only with a non-empty reason on a
\* Scheduled or Delayed trip; it then sets status Cancelled and records the
\* reason, and leaves every ticket, booked_seats and the events as they are;
\* otherwise it fails and the trip is unchanged.
C14_CancelTripContract ==
    [][/\ \A r \in Requests :
            LET q == req[r] IN
            /\ TripAccepted(r, "cancel_trip")
               => /\ trips[req'[r].trip].status \in {"Scheduled", "Delayed"}
                  /\ DbUnchanged
            /\ TripStep(r, "cancel_trip", "trip_save")
               => /\ out' = [op |-> "cancel_trip", code |-> "200"]
                  /\ trips[q.trip].status \in {"Scheduled", "Delayed"}
                  /\ trips'[q.trip].cancellation_reason \in Reasons \ {""}
                  /\ trips'[q.trip] =
                        [trips[q.trip] EXCEPT !.status = "Cancelled",
                           !.cancellation_reason = trips'[q.trip].cancellation_reason]
                  /\ tickets' = tickets /\ events' = events
       /\ (out'.op = "cancel_trip" /\ out'.code = "200")
          => \E r \in Requests : TripStep(r, "cancel_trip", "trip_save")
       /\ (out'.op = "cancel_trip" /\ out'.code # "200") => DbUnchanged]_vars

\* C14 witness: a trip with a sold seat has just been cancelled; its ticket
\* still holds the seat.
C14_Witness ==
    /\ out = [op |-> "cancel_trip", code |-> "200"]
    /\ trips["t1"].status = "Cancelled"
    /\ trips["t1"].cancellation_reason = "changed plans"
    /\ trips["t1"].booked_seats = 1
    /\ Len(tickets) = 1
    /\ tickets[1].status \in {"Reserved", "Confirmed"}

\* the trip transition table
TripTransitions ==
    {<<"Scheduled", "Active">>, <<"Active", "Completed">>,
     <<"Scheduled", "Cancelled">>, <<"Delayed", "Cancelled">>,
     <<"Scheduled", "Delayed">>, <<"Active", "Delayed">>,
     <<"Delayed", "Active">>, <<"Delayed", "Completed">>}

\* the four transition operations
TripOps == {"start_trip", "complete_trip", "cancel_trip", "delay_trip"}

\* C15: every change of a trip's status is an edge of the trip transition
\* table, and Completed and Cancelled are terminal: no transition request is
\* accepted on such a trip, it is answered with the invalid-state error and
\* the status stays.
C15_TripTransitionTable ==
    [][/\ \A t \in TripIds :
            trips'[t].status # trips[t].status
            => <<trips[t].status, trips'[t].status>> \in TripTransitions
       /\ \A t \in TripIds :
            trips[t].status \in {"Completed", "Cancelled"}
            => /\ trips'[t].status = trips[t].status
               /\ \A r \in Requests, op \in TripOps :
                    ~(TripAccepted(r, op) /\ req'[r].trip = t)
       /\ (/\ out'.op \in TripOps /\ req' = req
           /\ \A t \in TripIds : trips[t].status \in {"Completed", "Cancelled"})
          => out'.code \in {"400:state", "404"}]_vars

\* C15 witness: a transition request on a Completed trip has just been refused
\* with the invalid-state error.
C15_Witness ==
    /\ out.op \in TripOps /\ out.code = "400:state"
    /\ trips["t1"].status = "Completed"
    /\ Len(events) = 2

\* C16: from every reachable Delayed state some sequence of trip transition
\* requests leads to status Active or Completed.
C16_DelayedCanResume ==
    \A t \in TripIds :
       trips[t].status = "Delayed"
       => ReachableStatuses({"Delayed"}) \cap {"Active", "Completed"} # {}

\* trip t has an event of the type
HasEvent(t, type) ==
    \E i \in 1..Len(events) : events[i].trip = t /\ events[i].event_type = type

\* C17: when no transition request on a trip is between its two writes, a
\* trip that is Active has its Departure event, one that is Completed its
\* Arrival event and one that is Delayed its Delay event, also after a request
\* that failed between the two writes.
C17_TransitionAtomic ==
    \A t \in TripIds :
       (~\E r \in Requests : req[r].pc = "trip_event" /\ req[r].trip = t)
       => /\ trips[t].status = "Active" => HasEvent(t, "Departure")
          /\ trips[t].status = "Completed" => HasEvent(t, "Arrival")
          /\ trips[t].status = "Delayed" => HasEvent(t, "Delay")

\* C18: no two tickets in the table share a booking_reference, and a request
\* whose code another request has committed in the meantime is refused and
\* inserts nothing.
C18_UniqueReference ==
    [][/\ \A i, j \in 1..Len(tickets') :
            tickets'[i].booking_reference = tickets'[j].booking_reference => i = j
       /\ \A r \in Requests :
            (/\ req[r].pc = "issue_create" /\ Steps(r)
             /\ \E i \in TicketIds : tickets[i].booking_reference = req[r].bref)
            => tickets' = tickets /\ trips' = trips /\ req'[r].pc = "idle"]_vars

\* C18 witness: two requests drew the same code; one has committed it and the
\* other has just been refused by the unique constraint.
C18_Witness ==
    /\ out = [op |-> "issue", code |-> "400:integrity"]
    /\ Len(tickets) = 1
    /\ \E r \in Requests : req[r].pc = "issue_save_trip"
                            /\ req[r].bref = tickets[1].booking_reference

\* the conditions under which a code is valid for the tenant of user u at time t
DiscountValid(u, code, t) ==
    \E i \in DOMAIN discounts :
       LET d == discounts[i] IN
       /\ d.company = UserCompany(u)
       /\ d.code = code
       /\ d.is_active
       /\ d.start_date <= t
       /\ (d.end_date = NoTime \/ t <= d.end_date)
       /\ ~(d.usage_limit # NoLimit /\ d.usage_count >= d.usage_limit)

\* C19: validate_code succeeds if and only if a discount with the code exists
\* in the tenant, is active, has start_date <= now, has no end_date or
\* now <= end_date, and does not have a usage_limit that usage_count has
\* reached; a request without a code fails.
C19_ValidateCodeIff ==
    [][\A r \in Requests :
         /\ (req[r].pc = "validate_code_query" /\ Steps(r))
            => (out'.code = "200" <=> DiscountValid(req[r].user, req[r].code, now))
         /\ (req' = req /\ out'.op = "validate_code")
            => out'.code # "200"]_vars

\* C20: validate_code answers 200 on success and 404 in each failure case of
\* a code that was given: unknown, inactive or outside its window, limit
\* reached.
C20_ValidateCodeStatus ==
    [][\A r \in Requests :
         (req[r].pc = "validate_code_query" /\ Steps(r))
         => out'.code \in {"200", "404"}]_vars

\* C21: every stored discount of type Percentage has value <= 100, whatever
\* create, PUT or PATCH requests the discount API has served (also a create
\* that omits the type and an update that sends only value or only type).
C21_PercentageAtMost100 ==
    \A i \in DOMAIN discounts :
       discounts[i].type = "Percentage" => discounts[i].value <= MaxPercentage

\* the listed tickets of the booking request in slot r that belong to
\* another company than the caller
Offending(r) ==
    {i \in DOMAIN req[r].listed :
       req[r].tk[i].company # UserCompany(req[r].user)}

\* C22: a booking request that lists a ticket of another company fails, and
\* after it no booking has been added and no listed ticket, processed before
\* the offending one or not, is associated with a booking.
C22_BookingAllOrNothing ==
    [][\A r \in Requests :
         (req[r].pc = "booking_create" /\ Steps(r) /\ Offending(r) # {})
         => /\ out'.op = "booking_create" /\ out'.code = "400:ticket_company"
            /\ bookings' = bookings
            /\ tickets' = tickets
            /\ \A i \in DOMAIN req[r].listed :
                 BookingOf(tickets'[req[r].listed[i]]) = NoBooking]_vars

\* a request whose second listed ticket is the offending one was refused
\* while a booking of an earlier request is stored
C22_Witness ==
    /\ out = [op |-> "booking_create", code |-> "400:ticket_company"]
    /\ Len(bookings) = 1
    /\ tickets[1].company # tickets[2].company

\* C23: when a booking request is committed, every listed ticket references
\* the new booking in its stored row, and listing the tickets of a booking of
\* the caller's company answers with them.
C23_TicketsReferenceBooking ==
    [][/\ \A r \in Requests :
            (req[r].pc = "booking_create" /\ Steps(r) /\ bookings' # bookings)
            => \A i \in DOMAIN req[r].listed :
                  BookingOf(tickets'[req[r].listed[i]]) = Len(bookings')
       /\ out'.op = "booking_tickets" => out'.code \in {"200", "404"}]_vars

\* C24: every ticket's trip and checked_in_by employee belong to the
\* ticket's company, and every trip's driver belongs to the trip's company,
\* whatever create, update and check-in requests have been served.
C24_TenantIsolation ==
    /\ \A i \in TicketIds :
         /\ trips[tickets[i].trip].company = tickets[i].company
         /\ tickets[i].checked_in_by # Null
            => EmployeeCompany(tickets[i].checked_in_by) = tickets[i].company
    /\ \A t \in DOMAIN trips : EmployeeCompany(trips[t].driver) = trips[t].company

\* the conditions of an acceptable trip: tenant checks, roles, bus status,
\* capacity and the order of departure and arrival
TripAcceptable(data, company) ==
    /\ data.route = company /\ data.bus = company /\ data.driver = company
    /\ data.conductor = Absent \/ data.conductor = company
    /\ data.driver_role = "Driver"
    /\ data.bus_status = "Active"
    /\ data.capacity > 0
    /\ data.departure < data.arrival

TripRejections ==
    {"400:route", "400:bus", "400:driver", "400:conductor", "400:capacity",
     "400:dates"}

\* C25: a trip creation request is accepted if and only if it meets the
\* tenant checks, the role, bus status and capacity conditions and departs
\* before it arrives; accepted, it creates the trip as Scheduled; otherwise
\* it is rejected with a validation error and creates nothing.
C25_TripCreationContract ==
    [][\A r \in Requests :
         (req[r].pc = "trip_create" /\ Steps(r))
         => IF TripAcceptable(req[r].data, UserCompany(req[r].user))
            THEN /\ out'.code = "201"
                 /\ NewTripId \in DOMAIN trips'
                 /\ trips'[NewTripId].status = "Scheduled"
            ELSE /\ out'.code \in TripRejections
                 /\ DbUnchanged]_vars

\* C26: a request that has inserted its ticket goes on to increment the
\* trip's booked_seats by exactly one, also when it fails after the insert:
\* no ticket is left in the table that booked_seats does not account for.
C26_IssueAtomic ==
    [][\A r \in Requests :
         (req[r].pc = "issue_save_trip" /\ Steps(r))
         => trips'[req[r].trip].booked_seats
              = trips[req[r].trip].booked_seats + 1]_vars

\* no request is in flight
Quiescent == \A r \in Requests : Free(r)

\* the tickets of trip t that hold a seat
SeatHolders(t) ==
    {i \in TicketIds :
       tickets[i].trip = t /\ tickets[i].status \notin {"Cancelled", "Refunded"}}

\* C28: from a trip with booked_seats = 0 and no tickets, whenever the
\* requests served so far (create, cancel, refund, check-in, generic update,
\* delete) have all been answered, booked_seats equals the number of the
\* trip's tickets that are neither Cancelled nor Refunded.
C28_LedgerConsistency ==
    Quiescent => \A t \in DOMAIN trips :
                    trips[t].booked_seats = Cardinality(SeatHolders(t))

\* the step is the trip save of an issuance by some request
IssueSaves(t) ==
    \E r \in Requests :
       req[r].pc = "issue_save_trip" /\ req[r].trip = t /\ Steps(r)

\* the step is the trip save of a cancellation (the cancel action, or an
\* update to status Cancelled) by some request
CancelSaves(t) ==
    \E r \in Requests :
       /\ req[r].pc \in {"cancel_save_trip", "update_save_trip"}
       /\ req[r].trip = t /\ Steps(r)

\* C27: booked_seats of a trip changes only in the trip save of a ticket
\* issuance (by +1) or of a ticket cancellation (by -1, floored at 0); no
\* trip transition, check-in, refund or other request changes it.
C27_SeatsFrame ==
    [][\A t \in DOMAIN trips :
         trips'[t].booked_seats # trips[t].booked_seats
         => \/ /\ IssueSaves(t)
               /\ trips'[t].booked_seats = trips[t].booked_seats + 1
            \/ /\ CancelSaves(t)
               /\ trips'[t].booked_seats = Max(trips[t].booked_seats - 1, 0)]_vars

\* the trip row with its seat count left out
OtherFields(tp) == [tp EXCEPT !.booked_seats = 0]

\* C29: the trip save of a ticket issuance or cancellation changes nothing
\* but booked_seats in the trip row, also when a trip transition has written
\* the row since the ticket request read it.
C29_TicketSaveKeepsTripFields ==
    [][\A t \in DOMAIN trips :
         (IssueSaves(t) \/ CancelSaves(t))
         => OtherFields(trips'[t]) = OtherFields(trips[t])]_vars

\* the events of type type recorded for trip t
EventsOf(t, type) ==
    {i \in DOMAIN events : events[i].trip = t /\ events[i].event_type = type}

\* C30: a trip has at most one Departure and at most one Arrival event, and
\* a trip that is Cancelled with no transition in flight has no Departure
\* event, also when two transition requests read the status before either
\* writes.
C30_SingleDepartureArrival ==
    \A t \in DOMAIN trips :
       /\ Cardinality(EventsOf(t, "Departure")) <= 1
       /\ Cardinality(EventsOf(t, "Arrival")) <= 1
       /\ (Quiescent /\ trips[t].status = "Cancelled")
          => EventsOf(t, "Departure") = {}

====
